---- MODULE Spec2Model ----
(***************************************************************************)
(* Model of fast-rpc: the FastRPC router (route table, base context) and   *)
(* its request dispatcher `handle`, with the module-level shared objects   *)
(* emptyObject, notFoundResponse and errorResponse.                        *)
(*                                                                         *)
(* Middleware and handlers are user code: what they do on each invocation  *)
(* (invoke the continuation, mutate what they were given, return, throw)   *)
(* is chosen nondeterministically.                                         *)
(***************************************************************************)
EXTENDS Integers, Sequences, FiniteSets, TLC

\* ------------------------------------------------------------------------
\* Bounds
\* ------------------------------------------------------------------------

\* number of request slots (handle calls that can be in flight at once)
MaxInflight == 2

\* how often one middleware invocation may invoke its continuation
MaxNextCalls == 1

\* how many times a handle call sees a continuation invoked after the
\* middleware it was handed to has returned
MaxLateCalls == 1

\* how many ProcedureBuilder objects and procedures an application creates
MaxBuilders == 3

MaxProcedures == 2

Reqs == 1..MaxInflight

\* ------------------------------------------------------------------------
\* Values
\* ------------------------------------------------------------------------

\* a Context object: `user` says which nested user object it references
\* ("none": no user key, "base": the user object of the router's context),
\* `x` stands for the scalar keys (timestamp, isAdmin, ...)
Context == [user : {"none", "base"}, x : 0..1]

NoCtx == [user |-> "none", x |-> 0]

\* the contexts a FastRPCBuilder is constructed with: {} (initFastRPC) and
\* { user: { id, isAdmin } } (README)
BaseContexts == {[user |-> "none", x |-> 0], [user |-> "base", x |-> 0]}

\* the keys input objects can carry
Fields == {"name", "extra", "id"}

\* the keys a handler sets on the input object it is given
HandlerKeys == {"name"}

\* schemas: z.object with required string keys; NoSchema is `undefined`
NoSchema == [present |-> FALSE, required |-> {}]

ObjectSchema(required) == [present |-> TRUE, required |-> required]

\* the sequence of the elements of a finite set of strings, in a fixed order
RECURSIVE SetToSeq(_)
SetToSeq(S) ==
    IF S = {} THEN <<>>
    ELSE LET e == CHOOSE x \in S : TRUE IN <<e>> \o SetToSeq(S \ {e})

\* schema.safeParse(value) for an object schema: every required key that is
\* missing raises one issue; on success the data is a new object holding
\* only the keys the schema knows
safeParse(schema, keys) ==
    LET missing == schema.required \ keys
    IN  [success |-> missing = {},
         errors  |-> SetToSeq(missing),
         data    |-> keys \cap schema.required]

\* thrown values: a ZodError carries its issue list, any other error a
\* message. `jsonable` tells whether the issue list can be serialized: the
\* issue of a failed z.bigint().min(5n) carries the BigInt 5n as `minimum`,
\* which JSON.stringify refuses
Errors ==
    {[isZod |-> TRUE,  errors |-> <<"id">>, message |-> "zod",
      jsonable |-> TRUE],
     [isZod |-> TRUE,  errors |-> <<"minimum">>, message |-> "zod bigint",
      jsonable |-> FALSE],
     [isZod |-> FALSE, errors |-> <<>>,     message |-> "User not found",
      jsonable |-> TRUE],
     [isZod |-> FALSE, errors |-> <<>>,     message |-> "secret",
      jsonable |-> TRUE]}

TypeErr ==
    [isZod |-> FALSE, errors |-> <<>>, message |-> "TypeError",
     jsonable |-> TRUE]

\* what a handler can return: JSON values, and undefined (a handler without
\* a return statement)
Values == {"object", "string", "undefined"}

\* JSON.stringify(value) yields undefined for undefined
Serializable(v) == v # "undefined"

\* response bodies
NoBody == [tag |-> "none", msg |-> "", errors |-> <<>>, data |-> ""]

ErrorBody(msg) == [tag |-> "error", msg |-> msg, errors |-> <<>>, data |-> ""]

ErrorListBody(errors) ==
    [tag |-> "errors", msg |-> "", errors |-> errors, data |-> ""]

DataBody(v) == [tag |-> "data", msg |-> "", errors |-> <<>>, data |-> v]

\* the result of reading a body that was already read: response.json() rejects
Unusable == [tag |-> "TypeError", msg |-> "Body is unusable", errors |-> <<>>, data |-> ""]

NoResp == [kind |-> "none", status |-> 0, body |-> NoBody]

\* Response.json(data, { status }) : a new Response object
ResponseJson(body, status) == [kind |-> "json", status |-> status, body |-> body]

\* the two module-level Response objects, built once
notFoundResponse ==
    [kind |-> "notFoundResponse", status |-> 404, body |-> ErrorBody("Not found")]

errorResponse ==
    [kind |-> "errorResponse", status |-> 500, body |-> ErrorBody("Unknown error")]

SharedResponses == {"notFoundResponse", "errorResponse"}

\* responses a middleware builds to short-circuit
MwResponses ==
    {[kind |-> "middleware", status |-> 401, body |-> ErrorBody("Unauthorized")],
     [kind |-> "middleware", status |-> 403, body |-> ErrorBody("Forbidden")]}

\* what a middleware returns when it returns no Response
MwValues == {"undefined", "value"}

\* ------------------------------------------------------------------------
\* Requests
\* ------------------------------------------------------------------------

\* url.pathname as a sequence of tokens: "/" or a name
Paths ==
    {<<"/", "status">>, <<"/", "createUser">>, <<"/", "adminOnly">>,
     <<"/", "guarded">>, <<"/", "unknown">>, <<"/", "constructor">>,
     <<"/">>, <<"/", "status", "/">>, <<"/", "api", "/", "v1", "/", "status">>}

\* pathname.split("/")
RECURSIVE split(_)
split(path) ==
    IF path = <<>> THEN <<"">>
    ELSE LET rest == split(SubSeq(path, 1, Len(path) - 1))
             last == path[Len(path)]
         IN  IF last = "/" THEN Append(rest, "")
             ELSE [rest EXCEPT ![Len(rest)] = last]

\* variant: the first segment after the root is taken instead of the last
ResolveName_First(path) ==
    LET segs == split(path)
    IN  IF Len(segs) > 1 THEN segs[2] ELSE ""

\* url.pathname.split("/").pop() || ""
ResolveName(path) ==
    LET segs == split(path)
        popped == segs[Len(segs)]
    IN  IF popped = "" THEN "" ELSE popped

\* request bodies
NoBodyReq == [json |-> "none", keys |-> {}]

BadJson == [json |-> "bad", keys |-> {}]

JsonObject(keys) == [json |-> "ok", keys |-> keys]

Request(path, method, body) == [path |-> path, method |-> method, body |-> body]

Requests ==
    {Request(p, "GET", NoBodyReq) : p \in Paths}
    \cup {Request(<<"/", "status">>, "PUT", JsonObject({"name"}))}
    \cup {Request(<<"/", "createUser">>, "POST", b) :
            b \in {BadJson, JsonObject({}), JsonObject({"name"}),
                   JsonObject({"name", "extra"})}}
    \cup {Request(p, "POST", b) :
            p \in {<<"/", "guarded">>, <<"/", "unknown">>, <<"/", "status">>},
            b \in {BadJson, JsonObject({"name"})}}
    \cup {Request(<<"/", "constructor">>, "POST", BadJson)}

\* ------------------------------------------------------------------------
\* Router construction
\* ------------------------------------------------------------------------

\* the procedures record handed to t.router(...)
Procedures ==
    [status     |-> [_type |-> "query", _handler |-> "status",
                     _middleware |-> <<>>, input |-> NoSchema],
     createUser |-> [_type |-> "mutation", _handler |-> "createUser",
                     _middleware |-> <<>>, input |-> ObjectSchema({"name"})],
     adminOnly  |-> [_type |-> "query", _handler |-> "adminOnly",
                     _middleware |-> <<"addTimestamp", "isAdmin">>,
                     input |-> NoSchema],
     guarded    |-> [_type |-> "query", _handler |-> "guarded",
                     _middleware |-> <<"isAdmin">>,
                     input |-> ObjectSchema({"name"})],
     getUser    |-> [_type |-> "query", _handler |-> "getUser",
                     _middleware |-> <<>>, input |-> ObjectSchema({"id"})]]

\* FastRPC.procedure: this.routes[name] = { handler, middleware, input }
procedure(rts, name, handler, middleware, input) ==
    [n \in (DOMAIN rts) \cup {name} |->
        IF n = name
        THEN [handler |-> handler, middleware |-> middleware, input |-> input]
        ELSE rts[n]]

\* the loop of router(): one procedure() call per entry of the record
RECURSIVE RegisterAll(_, _, _)
RegisterAll(rts, procedures, names) ==
    IF names = {} THEN rts
    ELSE LET n == CHOOSE x \in names : TRUE
             p == procedures[n]
         IN  RegisterAll(procedure(rts, n, p._handler, p._middleware, p.input),
                         procedures, names \ {n})

\* an empty function: routes = {}
EmptyRoutes == [n \in {} |-> [handler |-> "", middleware |-> <<>>, input |-> NoSchema]]

router(procedures) == RegisterAll(EmptyRoutes, procedures, DOMAIN procedures)

\* keys every plain object inherits from Object.prototype
ObjectPrototype == {"constructor", "toString", "valueOf", "hasOwnProperty"}

NoRoute ==
    [truthy |-> FALSE, handler |-> "undefined", middleware |-> <<>>, input |-> NoSchema]

\* variant: a name without an entry falls back to the entry of status
RouteLookup_Fallback(rts, name) ==
    LET n == IF name \in DOMAIN rts THEN name ELSE "status"
    IN  [truthy |-> TRUE, handler |-> rts[n].handler,
         middleware |-> rts[n].middleware, input |-> rts[n].input]

\* this.routes[name]: an own entry, or a property inherited by the plain
\* object (a function that has no handler, middleware or input), or undefined
RouteLookup(rts, name) ==
    IF name \in DOMAIN rts
    THEN [truthy |-> TRUE, handler |-> rts[name].handler,
          middleware |-> rts[name].middleware, input |-> rts[name].input]
    ELSE IF name \in ObjectPrototype
    THEN [truthy |-> TRUE, handler |-> "undefined", middleware |-> <<>>,
          input |-> NoSchema]
    ELSE NoRoute

\* ------------------------------------------------------------------------
\* State
\* ------------------------------------------------------------------------

VARIABLES
    routes,        \* FastRPC.routes
    baseCtx,       \* FastRPC.ctx (its own keys)
    userObj,       \* the user object FastRPC.ctx references
    constructed,   \* the base context as it was at router construction
    emptyObject,   \* the keys of the module-level emptyObject
    bodyUsed,      \* whether the body of each shared Response was read
    call,          \* per handle call: its position and local variables
    client,        \* the pending or settled call of a createClient proxy
    lib            \* the ProcedureBuilder objects, the arrays they hold, the
                   \* procedures produced from them and the entries
                   \* registered from those

vars ==
    <<routes, baseCtx, userObj, constructed, emptyObject, bodyUsed, call,
      client, lib>>

NoInput == [shared |-> FALSE, keys |-> {}]

\* the argument of client.<name>.query(input) / .mutation(input): absent
\* (undefined), or an object with `keys`, of which `undef` hold undefined
NoArg == [given |-> FALSE, keys |-> {}, undef |-> {}]

\* what fetch gave back: a Response (status, JSON body) or a rejection
NoFetched == [kind |-> "none", status |-> 0, body |-> NoBody, message |-> ""]

\* how the promise of a client call settled
NoOutcome == [kind |-> "none", status |-> 0, body |-> NoBody, message |-> ""]

\* no builder, array, procedure or entry has been created
NoObjects == [arrays |-> <<>>, builders |-> <<>>, procs |-> <<>>, entries |-> <<>>]

\* a client call: the fetches it issued, what fetch gave back, the outcome
ClientIdle ==
    [pc |-> "idle", kind |-> "", baseUrl |-> <<>>, name |-> "",
     arg |-> NoArg, fetches |-> <<>>, fetched |-> NoFetched,
     outcome |-> NoOutcome]

\* a handle call: `heap` holds the Context objects created while it runs
\* (heap[1] is the copy { ...this.ctx }), `ctx` and `arg` are references
\* into it: the local variable ctx, and the object handed to the running
\* middleware or handler
Idle ==
    [pc |-> "idle", req |-> Request(<<>>, "GET", NoBodyReq), name |-> "",
     route |-> NoRoute, input |-> NoInput, heap |-> <<>>, ctx |-> 0,
     arg |-> 0, nextCalled |-> FALSE, nextCount |-> 0,
     idx |-> 0, trace |-> <<>>, resp |-> NoResp, readResult |-> NoBody]

Init ==
    /\ routes = router(Procedures)
    /\ baseCtx \in BaseContexts
    /\ userObj = [isAdmin |-> FALSE]
    /\ constructed = [ctx |-> baseCtx, user |-> userObj]
    /\ emptyObject = {}
    /\ bodyUsed = [k \in SharedResponses |-> FALSE]
    /\ call = [r \in Reqs |-> Idle]
    /\ client = ClientIdle
    /\ lib = NoObjects

\* ------------------------------------------------------------------------
\* Trace of what one handle call invoked (the spies of the tests)
\* ------------------------------------------------------------------------

\* who = 0 is the handler, who = i the i-th middleware of the route;
\* ctx is the Context object concerned and cv its content at that moment
Event(ev, who, fn, cx, cv, inp, val, res, adv) ==
    [ev |-> ev, who |-> who, fn |-> fn, ctx |-> cx, cv |-> cv, inp |-> inp,
     val |-> val, res |-> res, adv |-> adv]

\* the input object a call holds: emptyObject itself, or an object of its own
InputKeys(c) == IF c.input.shared THEN emptyObject ELSE c.input.keys

InFlight(c) == c.pc \notin {"idle", "done", "read", "rejected"}

\* ------------------------------------------------------------------------
\* handle
\* ------------------------------------------------------------------------

\* variant: every thrown error is answered with 400
Catch_AllAs400(c, error) ==
    [c EXCEPT !.pc = "done",
              !.resp = ResponseJson(ErrorListBody(error.errors), 400)]

\* the catch block of handle
Catch(c, error) ==
    IF error.isZod
    THEN IF error.jsonable
         THEN [c EXCEPT !.pc = "done",
                        !.resp = ResponseJson(ErrorListBody(error.errors), 400)]
         \* Response.json throws inside the catch block: the promise of
         \* handle rejects
         ELSE [c EXCEPT !.pc = "rejected"]
    ELSE [c EXCEPT !.pc = "done",
                   !.trace = Append(@, Event("console.error", 0, "", 0, NoCtx,
                                             {}, error.message, NoResp, FALSE)),
                   !.resp = errorResponse]

\* variant: the loop stops one middleware early
AfterStep_OffByOne(route, done) ==
    IF done + 1 < Len(route.middleware) THEN "loop" ELSE "handler"

\* where the middleware loop goes once `done` middleware have advanced:
\* the for-of loop ends when the list is exhausted
AfterStep(route, done) ==
    IF done < Len(route.middleware) THEN "loop" ELSE "handler"

\* variant: the parse failure is swallowed and the request goes on
JsonParses_Swallowed(body) == TRUE

\* try { input = await req.json() } catch { ... }: whether the body parses
JsonParses(body) == body.json = "ok"

\* variant: the test on result.success is inverted
Rejects_Inverted(schema, result) == schema.present /\ result.success

\* if (!result.success) return Response.json({ error: ... }, { status: 400 })
Rejects(schema, result) == schema.present /\ ~result.success

\* variant: a returned Response is ignored once the continuation was invoked
ShortCircuits_UnlessNext(res, nextCalled) == res # NoResp /\ ~nextCalled

\* variant: a returned Response never ends the loop
ShortCircuits_Never(res, nextCalled) == FALSE

\* if (result !== undefined && result instanceof Response) return result
ShortCircuits(res, nextCalled) == res # NoResp

\* variant: the continuation does not store the context it is given
NextAssign_Dropped(cur, passed) == cur

\* the continuation: ctx = opts.ctx
NextAssign(cur, passed) == passed

\* handle(req) up to the route lookup; `limit` is how many calls the caller
\* keeps in flight
Handle(r, req, limit) ==
    /\ ~InFlight(call[r])
    /\ \A q \in Reqs : q < r => InFlight(call[q])
    /\ Cardinality({q \in Reqs : InFlight(call[q])}) < limit
    /\ LET name  == ResolveName(req.path)
           route == RouteLookup(routes, name)
       IN  call' = [call EXCEPT ![r] =
                IF ~route.truthy
                THEN [Idle EXCEPT !.pc = "done", !.req = req, !.name = name,
                                  !.resp = notFoundResponse]
                ELSE [Idle EXCEPT !.pc = "input", !.req = req, !.name = name,
                                  !.route = route]]
    /\ UNCHANGED <<lib, client, routes, baseCtx, userObj, constructed, emptyObject, bodyUsed>>

\* let input = emptyObject; if POST, await req.json()
ParseInput(r) ==
    LET c == call[r] IN
    /\ c.pc = "input"
    /\ call' = [call EXCEPT ![r] =
            IF c.req.method = "POST"
            THEN IF JsonParses(c.req.body)
                 THEN [c EXCEPT !.pc = "validate",
                                !.input = [shared |-> FALSE, keys |-> c.req.body.keys]]
                 ELSE [c EXCEPT !.pc = "done",
                                !.resp = ResponseJson(ErrorBody("Invalid JSON"), 400)]
            ELSE [c EXCEPT !.pc = "validate",
                           !.input = [shared |-> TRUE, keys |-> {}]]]
    /\ UNCHANGED <<lib, client, routes, baseCtx, userObj, constructed, emptyObject, bodyUsed>>

\* schema validation, then let ctx = { ...this.ctx }, nextCalled = false
Validate(r) ==
    LET c      == call[r]
        result == safeParse(c.route.input, InputKeys(c))
        input  == IF c.route.input.present
                  THEN [shared |-> FALSE, keys |-> result.data]
                  ELSE c.input
        tr     == IF c.route.input.present
                  THEN Append(c.trace, Event("safeParse", 0, "", 0, NoCtx,
                                             InputKeys(c), "", NoResp, FALSE))
                  ELSE c.trace
    IN
    /\ c.pc = "validate"
    /\ call' = [call EXCEPT ![r] =
            IF Rejects(c.route.input, result)
            THEN [c EXCEPT !.pc = "done", !.trace = tr,
                           !.resp = ResponseJson(ErrorListBody(result.errors), 400)]
            ELSE [c EXCEPT !.pc = AfterStep(c.route, 0),
                           !.trace = tr,
                           !.input = input,
                           !.heap = <<baseCtx>>, !.ctx = 1,
                           !.nextCalled = FALSE]]
    /\ UNCHANGED <<lib, client, routes, baseCtx, userObj, constructed, emptyObject, bodyUsed>>

\* await middleware({ ctx, next }): the call of the next middleware
MwInvoke(r) ==
    LET c == call[r] IN
    /\ c.pc = "loop"
    /\ call' = [call EXCEPT ![r] =
            [c EXCEPT !.pc = "mw", !.idx = c.idx + 1, !.arg = c.ctx,
                      !.nextCount = 0,
                      !.trace = Append(@, Event("call", c.idx + 1,
                                                c.route.middleware[c.idx + 1],
                                                c.ctx, c.heap[c.ctx], {}, "",
                                                NoResp, FALSE))]]
    /\ UNCHANGED <<lib, client, routes, baseCtx, userObj, constructed, emptyObject, bodyUsed>>

\* the contexts a running middleware passes on: the object it was given
\* (next(opts), next({ ctx })) or a copy with a key set ({ ...ctx, x: 1 })
NextChoices == {"same", "spread"}

\* the running middleware invokes its continuation:
\* next: async (opts) => { ctx = opts.ctx; nextCalled = true; }
MwNext(r, choice) ==
    LET c      == call[r]
        heap   == IF choice = "same" THEN c.heap
                  ELSE Append(c.heap, [c.heap[c.arg] EXCEPT !.x = 1])
        passed == IF choice = "same" THEN c.arg ELSE Len(heap)
    IN
    /\ c.pc = "mw"
    /\ c.nextCount < MaxNextCalls
    /\ call' = [call EXCEPT ![r] =
            [c EXCEPT !.heap = heap,
                      !.ctx = NextAssign(c.ctx, passed),
                      !.nextCalled = TRUE,
                      !.nextCount = c.nextCount + 1,
                      !.trace = Append(@, Event("next", c.idx,
                                                c.route.middleware[c.idx],
                                                passed, heap[passed], {}, choice,
                                                NoResp, FALSE))]]
    /\ UNCHANGED <<lib, client, routes, baseCtx, userObj, constructed, emptyObject, bodyUsed>>

\* the running middleware sets a key of the context object it was given
MwMutateCtx(r) ==
    LET c == call[r] IN
    /\ c.pc = "mw"
    /\ c.heap[c.arg].x = 0
    /\ call' = [call EXCEPT ![r] = [c EXCEPT !.heap[c.arg].x = 1]]
    /\ UNCHANGED <<lib, client, routes, baseCtx, userObj, constructed, emptyObject, bodyUsed>>

\* a running middleware or handler writes through ctx.user
MutateUser(r) ==
    LET c == call[r] IN
    /\ c.pc \in {"mw", "inhandler"}
    /\ c.heap[c.arg].user = "base"
    /\ ~userObj.isAdmin
    /\ userObj' = [userObj EXCEPT !.isAdmin = TRUE]
    /\ UNCHANGED <<lib, client, routes, baseCtx, constructed, emptyObject, bodyUsed, call>>

\* the middleware returns `val`, or the Response `res`: result instanceof
\* Response, else break unless nextCalled, else nextCalled = false and on to
\* the next one; a value that is no Response is not looked at
MwReturn(r, val, res) ==
    LET c  == call[r]
        tr == Append(c.trace, Event("return", c.idx, c.route.middleware[c.idx],
                                    c.ctx, c.heap[c.ctx], {}, "", res,
                                    c.nextCalled))
    IN
    /\ c.pc = "mw"
    /\ call' = [call EXCEPT ![r] =
            IF ShortCircuits(res, c.nextCalled)
            THEN [c EXCEPT !.pc = "done", !.resp = res, !.trace = tr]
            ELSE IF ~c.nextCalled
            THEN [c EXCEPT !.pc = "handler", !.trace = tr]
            ELSE [c EXCEPT !.pc = AfterStep(c.route, c.idx),
                           !.nextCalled = FALSE, !.trace = tr]]
    /\ UNCHANGED <<lib, client, routes, baseCtx, userObj, constructed, emptyObject, bodyUsed>>

\* the middleware throws (its promise rejects)
MwThrow(r, error) ==
    LET c  == call[r]
        tr == Append(c.trace, Event("throw", c.idx, c.route.middleware[c.idx],
                                    c.ctx, c.heap[c.ctx], {}, error.message,
                                    NoResp, c.nextCalled))
    IN
    /\ c.pc = "mw"
    /\ call' = [call EXCEPT ![r] = Catch([c EXCEPT !.trace = tr], error)]
    /\ UNCHANGED <<lib, client, routes, baseCtx, userObj, constructed, emptyObject, bodyUsed>>

\* await route.handler(input, ctx): the call; a route without a handler
\* function throws a TypeError
HandlerInvoke(r) ==
    LET c  == call[r]
        tr == Append(c.trace, Event("call", 0, c.route.handler, c.ctx,
                                    c.heap[c.ctx], InputKeys(c), "", NoResp,
                                    FALSE))
    IN
    /\ c.pc = "handler"
    /\ call' = [call EXCEPT ![r] =
            IF c.route.handler = "undefined"
            THEN Catch(c, TypeErr)
            ELSE [c EXCEPT !.pc = "inhandler", !.arg = c.ctx, !.trace = tr]]
    /\ UNCHANGED <<lib, client, routes, baseCtx, userObj, constructed, emptyObject, bodyUsed>>

\* the running handler sets a key of the input object it was given
HandlerMutateInput(r, key) ==
    LET c == call[r] IN
    /\ c.pc = "inhandler"
    /\ c.input.shared
    /\ key \notin emptyObject
    /\ emptyObject' = emptyObject \cup {key}
    /\ UNCHANGED <<lib, client, routes, baseCtx, userObj, constructed, bodyUsed, call>>

\* the handler returns: return Response.json(result), which throws a
\* TypeError when the result has no JSON serialization
HandlerReturn(r, v) ==
    LET c  == call[r]
        tr == Append(c.trace, Event("return", 0, c.route.handler, c.ctx,
                                    c.heap[c.ctx], {}, v, NoResp, FALSE))
    IN
    /\ c.pc = "inhandler"
    /\ call' = [call EXCEPT ![r] =
            IF Serializable(v)
            THEN [c EXCEPT !.pc = "done", !.trace = tr,
                           !.resp = ResponseJson(DataBody(v), 200)]
            ELSE Catch([c EXCEPT !.trace = tr], TypeErr)]
    /\ UNCHANGED <<lib, client, routes, baseCtx, userObj, constructed, emptyObject, bodyUsed>>

\* the handler throws
HandlerThrow(r, error) ==
    LET c  == call[r]
        tr == Append(c.trace, Event("throw", 0, c.route.handler, c.ctx,
                                    c.heap[c.ctx], {}, error.message, NoResp,
                                    FALSE))
    IN
    /\ c.pc = "inhandler"
    /\ call' = [call EXCEPT ![r] = Catch([c EXCEPT !.trace = tr], error)]
    /\ UNCHANGED <<lib, client, routes, baseCtx, userObj, constructed, emptyObject, bodyUsed>>

\* the caller reads the body of the response it got: await response.json();
\* the body of a Response object can be read once
ReadBody(r) ==
    LET c == call[r]
        k == c.resp.kind
    IN
    /\ c.pc = "done"
    /\ IF k \in SharedResponses
       THEN /\ call' = [call EXCEPT ![r] =
                    [c EXCEPT !.pc = "read",
                              !.readResult = IF bodyUsed[k] THEN Unusable
                                             ELSE c.resp.body]]
            /\ bodyUsed' = [bodyUsed EXCEPT ![k] = TRUE]
       ELSE /\ call' = [call EXCEPT ![r] =
                    [c EXCEPT !.pc = "read", !.readResult = c.resp.body]]
            /\ UNCHANGED bodyUsed
    /\ UNCHANGED <<lib, client, routes, baseCtx, userObj, constructed, emptyObject>>

\* ------------------------------------------------------------------------
\* Specification: a caller that awaits each handle call before the next
\* ------------------------------------------------------------------------

Step(r) ==
    \/ ParseInput(r)
    \/ Validate(r)
    \/ MwInvoke(r)
    \/ \E choice \in NextChoices : MwNext(r, choice)
    \/ MwMutateCtx(r)
    \/ MutateUser(r)
    \/ \E val \in MwValues : MwReturn(r, val, NoResp)
    \/ \E res \in MwResponses : MwReturn(r, "response", res)
    \/ \E error \in Errors : MwThrow(r, error)
    \/ HandlerInvoke(r)
    \/ \E key \in HandlerKeys : HandlerMutateInput(r, key)
    \/ \E v \in Values : HandlerReturn(r, v)
    \/ \E error \in Errors : HandlerThrow(r, error)
    \/ ReadBody(r)

Next ==
    \E r \in Reqs :
        \/ \E req \in Requests : Handle(r, req, 1)
        \/ Step(r)

Spec == Init /\ [][Next]_vars

\* ------------------------------------------------------------------------
\* Continuations invoked late
\* ------------------------------------------------------------------------

\* the position of the call event of middleware k
CallOf(c, k) ==
    CHOOSE i \in 1..Len(c.trace) : c.trace[i].ev = "call" /\ c.trace[i].who = k

LateCalls(c) == {i \in 1..Len(c.trace) : c.trace[i].ev = "late"}

\* the continuation handed to middleware k is invoked (from a timer or
\* another deferred callback the middleware left behind) after middleware k
\* has returned, while a later middleware or the handler is awaited: the
\* closure assigns the variables ctx and nextCalled of the handle call
LateNext(r, k, choice) ==
    LET c      == call[r]
        given  == c.trace[CallOf(c, k)].ctx
        heap   == IF choice = "same" THEN c.heap
                  ELSE Append(c.heap, [c.heap[given] EXCEPT !.x = 1])
        passed == IF choice = "same" THEN given ELSE Len(heap)
    IN
    /\ \/ c.pc = "mw" /\ k \in 1..(c.idx - 1)
       \/ c.pc = "inhandler" /\ k \in 1..c.idx
    /\ Cardinality(LateCalls(c)) < MaxLateCalls
    /\ call' = [call EXCEPT ![r] =
            [c EXCEPT !.heap = heap,
                      !.ctx = NextAssign(c.ctx, passed),
                      !.nextCalled = TRUE,
                      !.trace = Append(@, Event("late", k, c.route.middleware[k],
                                                passed, heap[passed], {}, choice,
                                                NoResp, FALSE))]]
    /\ UNCHANGED <<lib, client, routes, baseCtx, userObj, constructed, emptyObject, bodyUsed>>

\* requests to the procedures that have middleware
DeferredRequests ==
    {req \in Requests : ResolveName(req.path) \in {"adminOnly", "guarded"}}

DeferredNext ==
    \/ \E req \in DeferredRequests : Handle(1, req, 1)
    \/ Step(1)
    \/ \E k \in 1..2, choice \in NextChoices : LateNext(1, k, choice)

DeferredSpec == Init /\ [][DeferredNext]_vars

\* ------------------------------------------------------------------------
\* Concurrent handle calls
\* ------------------------------------------------------------------------

\* the requests of the concurrent callers: the first caller asks the
\* procedures without a schema, the others also one with a schema and a name
\* that is not registered
ConcurrentRequests(r) ==
    IF r = 1
    THEN {Request(<<"/", "status">>, "GET", NoBodyReq),
          Request(<<"/", "adminOnly">>, "GET", NoBodyReq)}
    ELSE {Request(<<"/", "status">>, "GET", NoBodyReq),
          Request(<<"/", "createUser">>, "GET", NoBodyReq),
          Request(<<"/", "unknown">>, "GET", NoBodyReq)}

\* up to MaxInflight handle calls run on the same router, interleaved at
\* their awaits
ConcurrentNext ==
    \E r \in Reqs :
        \/ \E req \in ConcurrentRequests(r) : Handle(r, req, MaxInflight)
        \/ Step(r)

ConcurrentSpec == Init /\ [][ConcurrentNext]_vars

\* ------------------------------------------------------------------------
\* The public interface of a constructed router
\* ------------------------------------------------------------------------

\* the arguments of a call of router.procedure(name, handler) made by the
\* application after t.router(...) has returned the router
LateNames == {"status", "extra"}

\* FastRPC.procedure is a public method of the object t.router returns:
\* this.routes[name] = { handler, middleware, input }, with the defaults
\* middleware = [] and input = undefined
LateProcedure(name) ==
    /\ routes' = procedure(routes, name, "late", <<>>, NoSchema)
    /\ UNCHANGED <<lib, client, baseCtx, userObj, constructed, emptyObject, bodyUsed, call>>

PublicRequests ==
    {Request(<<"/", n>>, "GET", NoBodyReq) : n \in {"status", "adminOnly", "extra"}}

PublicNext ==
    \/ \E req \in PublicRequests : Handle(1, req, 1)
    \/ Step(1)
    \/ \E name \in LateNames : LateProcedure(name)

PublicSpec == Init /\ [][PublicNext]_vars

\* ------------------------------------------------------------------------
\* ProcedureBuilder
\* ------------------------------------------------------------------------

\* the middleware functions handed to use, the schemas handed to input
MwFns == {"addTimestamp", "isAdmin"}

Schemas == {ObjectSchema({"name"})}

\* a ProcedureBuilder object: _type, _input, and _middleware as a reference
\* to an array of lib.arrays. `chain` and `given` are history: the functions
\* handed to use and the schema set on the way to this object
Builder(type, schema, ref, chain) ==
    [type |-> type, input |-> schema, mw |-> ref, chain |-> chain,
     given |-> schema]

\* new ProcedureBuilder(type): _middleware = [], no _input
BuilderNew(l, type) ==
    [l EXCEPT !.arrays = Append(@, <<>>),
              !.builders = Append(@, Builder(type, NoSchema,
                                             Len(l.arrays) + 1, <<>>))]

\* input(schema): a new builder that holds the schema and the very array of
\* the receiver (builder._middleware = this._middleware)
BuilderInput(l, b, schema) ==
    LET this == l.builders[b]
    IN  [l EXCEPT !.builders = Append(@, Builder(this.type, schema, this.mw,
                                                 this.chain))]

\* variant: use appends to the array of the receiver and shares it
BuilderUse_Push(l, b, fn) ==
    LET this == l.builders[b]
    IN  [l EXCEPT !.arrays[this.mw] = Append(@, fn),
                  !.builders = Append(@, Builder(this.type, this.input, this.mw,
                                                 Append(this.chain, fn)))]

\* use(fn): a new builder with the schema of the receiver and a new array
\* [...this._middleware, fn]
BuilderUse(l, b, fn) ==
    LET this == l.builders[b]
    IN  [l EXCEPT !.arrays = Append(@, Append(l.arrays[this.mw], fn)),
                  !.builders = Append(@, Builder(this.type, this.input,
                                                 Len(l.arrays) + 1,
                                                 Append(this.chain, fn)))]

\* query(handler) / mutation(handler): the procedure object, which holds the
\* array and the schema of the builder
Produce(l, b, type, handler) ==
    LET this == l.builders[b]
    IN  [l EXCEPT !.procs = Append(@,
            [_type |-> type, _handler |-> handler, _middleware |-> this.mw,
             input |-> this.input, chain |-> this.chain, given |-> this.input])]

\* the loop of router(procedures) for one procedure:
\* rpc.procedure(name, procedure._handler, procedure._middleware || [],
\*               procedure.input)
Register(l, p, name) ==
    LET proc == l.procs[p]
    IN  [l EXCEPT !.entries = Append(@,
            [name |-> name, handler |-> proc._handler,
             middleware |-> proc._middleware, input |-> proc.input,
             chain |-> proc.chain, given |-> proc.given])]

\* t.procedure.input / use / query / mutation start from a new builder
NewBuilder(type) ==
    /\ Len(lib.builders) < MaxBuilders
    /\ lib' = BuilderNew(lib, type)
    /\ UNCHANGED <<client, routes, baseCtx, userObj, constructed, emptyObject, bodyUsed, call>>

Input(b, schema) ==
    /\ Len(lib.builders) < MaxBuilders
    /\ b \in 1..Len(lib.builders)
    /\ lib' = BuilderInput(lib, b, schema)
    /\ UNCHANGED <<client, routes, baseCtx, userObj, constructed, emptyObject, bodyUsed, call>>

Use(b, fn) ==
    /\ Len(lib.builders) < MaxBuilders
    /\ b \in 1..Len(lib.builders)
    /\ lib' = BuilderUse(lib, b, fn)
    /\ UNCHANGED <<client, routes, baseCtx, userObj, constructed, emptyObject, bodyUsed, call>>

Query(b) ==
    /\ Len(lib.procs) < MaxProcedures
    /\ b \in 1..Len(lib.builders)
    /\ lib' = Produce(lib, b, "query", "handler")
    /\ UNCHANGED <<client, routes, baseCtx, userObj, constructed, emptyObject, bodyUsed, call>>

Mutation(b) ==
    /\ Len(lib.procs) < MaxProcedures
    /\ b \in 1..Len(lib.builders)
    /\ lib' = Produce(lib, b, "mutation", "handler")
    /\ UNCHANGED <<client, routes, baseCtx, userObj, constructed, emptyObject, bodyUsed, call>>

\* t.router registers the procedures in the order they were produced
RouterRegister ==
    /\ Len(lib.entries) < Len(lib.procs)
    /\ lib' = Register(lib, Len(lib.entries) + 1, "route")
    /\ UNCHANGED <<client, routes, baseCtx, userObj, constructed, emptyObject, bodyUsed, call>>

BuilderNext ==
    \/ \E type \in {"query", "mutation"} : NewBuilder(type)
    \/ \E b \in 1..MaxBuilders, schema \in Schemas : Input(b, schema)
    \/ \E b \in 1..MaxBuilders, fn \in MwFns : Use(b, fn)
    \/ \E b \in 1..MaxBuilders : Query(b)
    \/ \E b \in 1..MaxBuilders : Mutation(b)
    \/ RouterRegister

BuilderSpec == Init /\ [][BuilderNext]_vars

\* ------------------------------------------------------------------------
\* Progress
\* ------------------------------------------------------------------------

\* every await of a handle call settles: the body parse, each middleware
\* invocation and the handler invocation complete by returning or throwing,
\* and the event loop runs the code of handle between them
Completes(r) ==
    /\ WF_vars(ParseInput(r))
    /\ WF_vars(Validate(r))
    /\ WF_vars(MwInvoke(r))
    /\ WF_vars((\E val \in MwValues : MwReturn(r, val, NoResp))
               \/ (\E res \in MwResponses : MwReturn(r, "response", res))
               \/ (\E error \in Errors : MwThrow(r, error)))
    /\ WF_vars(HandlerInvoke(r))
    /\ WF_vars((\E v \in Values : HandlerReturn(r, v))
               \/ (\E error \in Errors : HandlerThrow(r, error)))

LiveSpec == Init /\ [][Next]_vars /\ \A r \in Reqs : Completes(r)

TypeOK ==
    /\ baseCtx \in Context
    /\ emptyObject \subseteq Fields
    /\ \A r \in Reqs :
        /\ call[r].ctx \in 0..Len(call[r].heap)
        /\ call[r].idx \in 0..Len(call[r].route.middleware)
        /\ \A i \in 1..Len(call[r].heap) : call[r].heap[i] \in Context

\* ------------------------------------------------------------------------
\* createClient
\* ------------------------------------------------------------------------

\* the path part of the baseUrl a client is created with: "http://host" and
\* "http://host/api"
BaseUrls == {<<>>, <<"/", "api">>}

\* the property names read off the proxy
ClientNames == {"status", "createUser", "adminOnly", "getUser", "unknown"}

\* the inputs handed to query / mutation: none, {}, { id }, { id: undefined }
ClientArgs ==
    {NoArg,
     [given |-> TRUE, keys |-> {}, undef |-> {}],
     [given |-> TRUE, keys |-> {"id"}, undef |-> {}],
     [given |-> TRUE, keys |-> {"id"}, undef |-> {"id"}]}

\* `${baseUrl}/${name}`
Url(baseUrl, name) == baseUrl \o <<"/", name>>

\* variant: an absent input is serialized as it is (JSON.stringify(undefined)
\* is undefined, so the request carries no body)
Stringify_NoDefault(arg) ==
    IF arg.given THEN JsonObject(arg.keys \ arg.undef) ELSE NoBodyReq

\* JSON.stringify(input ?? {}): keys holding undefined are left out
Stringify(arg) ==
    IF arg.given THEN JsonObject(arg.keys \ arg.undef) ELSE JsonObject({})

\* one call of fetch(url, init)
FetchCall(path, method, headers, body) ==
    [path |-> path, method |-> method, headers |-> headers, body |-> body]

\* a response body that is not JSON text
NotJson == [tag |-> "text", msg |-> "", errors |-> <<>>, data |-> ""]

\* the responses and failures a fetch can give back
Statuses == {200, 201, 299, 304, 400, 404, 500}

FetchBodies == {DataBody("object"), DataBody("string"), ErrorBody("Not found"), NotJson}

NetworkErrors == {"fetch failed", "aborted"}

\* variant: only status 200 counts as success
Ok_Only200(status) == status = 200

\* response.ok
Ok(status) == status >= 200 /\ status <= 299

\* the rest of query / mutation once fetch has settled: throw on !response.ok,
\* otherwise return response.json()
Settle(fetched) ==
    IF fetched.kind = "rejected"
    THEN [kind |-> "error", status |-> 0, body |-> NoBody,
          message |-> fetched.message]
    ELSE IF ~Ok(fetched.status)
    THEN [kind |-> "HttpError", status |-> fetched.status, body |-> NoBody,
          message |-> "HTTP error! status"]
    ELSE IF fetched.body.tag \in {"text", "TypeError"}
    THEN [kind |-> "error", status |-> 0, body |-> NoBody,
          message |-> "SyntaxError"]
    ELSE [kind |-> "value", status |-> 0, body |-> fetched.body, message |-> ""]

Settled(c, fetched) ==
    LET outcome == Settle(fetched)
    IN  [c EXCEPT !.pc = IF outcome.kind = "value" THEN "resolved" ELSE "rejected",
                  !.fetched = fetched, !.outcome = outcome]

\* client.<name>.query(input) up to its fetch
ClientQuery(baseUrl, name, arg) ==
    /\ client.pc # "fetching"
    /\ call[1].pc = "idle"
    /\ client' = [ClientIdle EXCEPT
            !.pc = "fetching", !.kind = "query", !.baseUrl = baseUrl,
            !.name = name, !.arg = arg,
            !.fetches = <<FetchCall(Url(baseUrl, name), "GET", {}, NoBodyReq)>>]
    /\ UNCHANGED <<lib, routes, baseCtx, userObj, constructed, emptyObject, bodyUsed, call>>

\* client.<name>.mutation(input) up to its fetch
ClientMutation(baseUrl, name, arg) ==
    /\ client.pc # "fetching"
    /\ call[1].pc = "idle"
    /\ client' = [ClientIdle EXCEPT
            !.pc = "fetching", !.kind = "mutation", !.baseUrl = baseUrl,
            !.name = name, !.arg = arg,
            !.fetches = <<FetchCall(Url(baseUrl, name), "POST",
                                    {"Content-Type"}, Stringify(arg))>>]
    /\ UNCHANGED <<lib, routes, baseCtx, userObj, constructed, emptyObject, bodyUsed, call>>

\* fetch resolves with a Response (a mocked fetch, or any server)
FetchRespond(status, body) ==
    /\ client.pc = "fetching"
    /\ call[1].pc = "idle"
    /\ client' = Settled(client, [kind |-> "response", status |-> status,
                                  body |-> body, message |-> ""])
    /\ UNCHANGED <<lib, routes, baseCtx, userObj, constructed, emptyObject, bodyUsed, call>>

\* fetch rejects: the await rethrows the error out of query / mutation
FetchFail(message) ==
    /\ client.pc = "fetching"
    /\ call[1].pc = "idle"
    /\ client' = Settled(client, [kind |-> "rejected", status |-> 0,
                                  body |-> NoBody, message |-> message])
    /\ UNCHANGED <<lib, routes, baseCtx, userObj, constructed, emptyObject, bodyUsed, call>>

\* the Request a server builds from a fetch
RequestOf(f) == Request(f.path, f.method, f.body)

\* fetch served by the router: the request reaches handle
FetchToRouter ==
    /\ client.pc = "fetching"
    /\ call[1].pc = "idle"
    /\ Handle(1, RequestOf(client.fetches[1]), 1)

\* the router's response, its body read, reaches the client
FetchDeliver ==
    /\ client.pc = "fetching"
    /\ call[1].pc = "read"
    /\ client' = Settled(client, [kind |-> "response",
                                  status |-> call[1].resp.status,
                                  body |-> call[1].readResult, message |-> ""])
    /\ UNCHANGED <<lib, routes, baseCtx, userObj, constructed, emptyObject, bodyUsed, call>>

\* a client against a mocked fetch
ClientNext ==
    \/ \E baseUrl \in BaseUrls, name \in ClientNames, arg \in ClientArgs :
            ClientQuery(baseUrl, name, arg)
    \/ \E baseUrl \in BaseUrls, name \in ClientNames, arg \in ClientArgs :
            ClientMutation(baseUrl, name, arg)
    \/ \E status \in Statuses, body \in FetchBodies : FetchRespond(status, body)
    \/ \E message \in NetworkErrors : FetchFail(message)

ClientSpec == Init /\ [][ClientNext]_vars

\* a client whose fetch is served by the router
EndToEndNext ==
    \/ \E name \in ClientNames, arg \in ClientArgs : ClientQuery(<<>>, name, arg)
    \/ \E name \in ClientNames, arg \in ClientArgs : ClientMutation(<<>>, name, arg)
    \/ FetchToRouter
    \/ Step(1)
    \/ FetchDeliver

EndToEndSpec == Init /\ [][EndToEndNext]_vars

\* ------------------------------------------------------------------------
\* Properties
\* ------------------------------------------------------------------------

Finished(c) == c.pc \in {"done", "read"}

\* the name has an entry of its own in the route table
Registered(name) == name \in DOMAIN routes

IsInvocation(e) == e.ev = "call"

IsMwEvent(e) == e.who # 0 /\ e.ev \in {"call", "return", "throw"}

\* the middleware and handler calls of a handle call, in order
Invocations(c) == SelectSeq(c.trace, IsInvocation)

\* the calls and completions of middleware, in order
MwEvents(c) == SelectSeq(c.trace, IsMwEvent)

HandlerCalls(c) == {i \in 1..Len(c.trace) : c.trace[i].ev = "call" /\ c.trace[i].who = 0}

\* middleware k returned no Response after invoking its continuation
Advanced(c, k) ==
    \E j \in 1..Len(c.trace) :
        /\ c.trace[j].ev = "return" /\ c.trace[j].who = k
        /\ c.trace[j].adv /\ c.trace[j].res = NoResp

AllAdvanced(c) == \A k \in 1..Len(c.route.middleware) : Advanced(c, k)

\* no middleware has returned without invoking its continuation
NoBreak(c) ==
    \A j \in 1..Len(c.trace) :
        (c.trace[j].ev = "return" /\ c.trace[j].who # 0) => c.trace[j].adv

ErrorOf(message) == CHOOSE e \in Errors : e.message = message

\* C1 (as stated): when the name is registered, every middleware advances and
\* the handler returns a value v, the response is 200 with JSON body v.
C1_HandlerValueIs200 ==
    \A r \in Reqs : \A i \in 1..Len(call[r].trace) :
        LET c == call[r] e == c.trace[i] IN
        (e.ev = "return" /\ e.who = 0 /\ Registered(c.name) /\ AllAdvanced(c))
            => /\ Finished(c)
               /\ c.resp.status = 200
               /\ c.resp.body = DataBody(e.val)

\* C2 (as stated): a request whose resolved name has no entry in the route
\* table gets 404 {"error": "Not found"}, and nothing is invoked for it.
C2_UnregisteredIs404 ==
    \A r \in Reqs :
        LET c == call[r] IN
        (Finished(c) /\ ~Registered(c.name))
            => /\ c.resp.status = 404
               /\ c.resp.body = ErrorBody("Not found")
               /\ Invocations(c) = <<>>

\* C3 (as stated): when the caller reads the body of a response that handle
\* built (200, 400, 404, 500), it gets that response's JSON body, never a
\* body consumed by an earlier request.
C3_BodyReadable ==
    \A r \in Reqs :
        LET c == call[r] IN
        (c.pc = "read" /\ c.resp.kind \in {"json"} \cup SharedResponses)
            => /\ c.readResult = c.resp.body
               /\ c.readResult.tag \in {"error", "errors", "data"}

\* C4: a POST to a registered procedure with a body that is not valid JSON
\* gets 400 {"error": "Invalid JSON"}; no middleware and no handler is
\* invoked for it.
C4_InvalidJsonIs400 ==
    \A r \in Reqs :
        LET c == call[r] IN
        (c.pc # "idle" /\ c.req.method = "POST" /\ c.req.body.json = "bad"
         /\ Registered(c.name))
            => /\ Invocations(c) = <<>>
               /\ c.pc \in {"input", "done", "read"}
               /\ Finished(c) =>
                    /\ c.resp = ResponseJson(ErrorBody("Invalid JSON"), 400)
                    /\ c.pc = "read" => c.readResult = ErrorBody("Invalid JSON")

C4_Witness ==
    \E r \in Reqs :
        /\ call[r].pc = "read" /\ call[r].req.method = "POST"
        /\ call[r].req.body.json = "bad" /\ Registered(call[r].name)
        /\ Len(call[r].route.middleware) > 0
        /\ call[r].resp.status = 400

C6_MiddlewareInOrder ==
    \A r \in Reqs :
        LET c == call[r]
            M == MwEvents(c)
            n == Len(c.route.middleware)
        IN
        /\ Len(M) <= 2 * n
        /\ \A j \in 1..Len(M) :
            IF j % 2 = 1
            THEN /\ M[j].ev = "call"
                 /\ M[j].who = (j + 1) \div 2
                 /\ M[j].fn = c.route.middleware[(j + 1) \div 2]
            ELSE /\ M[j].ev \in {"return", "throw"}
                 /\ M[j].who = j \div 2
        /\ \A h \in HandlerCalls(c) :
            NoBreak(c) =>
                /\ Len(M) = 2 * n
                /\ AllAdvanced(c)
                /\ \A j \in 1..Len(c.trace) : IsMwEvent(c.trace[j]) => j < h

C6_Witness ==
    \E r \in Reqs :
        /\ Len(call[r].route.middleware) = 2
        /\ HandlerCalls(call[r]) # {}
        /\ AllAdvanced(call[r])
        /\ Len(MwEvents(call[r])) = 4

\* C7: when the middleware at any position returns a Response, handle
\* returns exactly that Response, and nothing is invoked after that
\* middleware: no later middleware and no handler.
C7_ShortCircuit ==
    \A r \in Reqs : \A j \in 1..Len(call[r].trace) :
        LET c == call[r] e == c.trace[j] IN
        (e.ev = "return" /\ e.who # 0 /\ e.res # NoResp)
            => /\ Finished(c)
               /\ c.resp = e.res
               /\ j = Len(c.trace)
               /\ HandlerCalls(c) = {}
               /\ c.pc = "read" => c.readResult = e.res.body

C7_Witness ==
    \E r \in Reqs :
        LET c == call[r] IN
        /\ Finished(c) /\ Len(c.trace) > 0
        /\ c.trace[Len(c.trace)].ev = "return"
        /\ c.trace[Len(c.trace)].who = 2
        /\ c.trace[Len(c.trace)].adv
        /\ c.resp.status = 403

\* the last "next" event of middleware k before position j
LastNext(c, k, j) ==
    CHOOSE i \in 1..j :
        /\ c.trace[i].ev = "next" /\ c.trace[i].who = k
        /\ \A q \in (i + 1)..j : ~(c.trace[q].ev = "next" /\ c.trace[q].who = k)

C9_BaseContextUnchanged ==
    /\ baseCtx = constructed.ctx
    /\ userObj = constructed.user
    /\ \A r \in Reqs :
        Len(call[r].heap) > 0 =>
            \A j \in 1..Len(call[r].trace) :
                (call[r].trace[j].ev = "call"
                 /\ \A q \in 1..(j - 1) : call[r].trace[q].ev # "call")
                    => call[r].trace[j].cv = constructed.ctx

\* C10 (as stated): an error thrown by a middleware or the handler is caught:
\* a ZodError gives 400 with its error list, any other error gives 500
\* {"error": "Unknown error"} and is logged; nothing is invoked after a throw.
C10_ThrownErrorMapped ==
    \A r \in Reqs : \A j \in 1..Len(call[r].trace) :
        LET c   == call[r]
            e   == c.trace[j]
            err == ErrorOf(e.val)
        IN
        e.ev = "throw" =>
            /\ Finished(c)
            /\ \A m \in (j + 1)..Len(c.trace) : c.trace[m].ev = "console.error"
            /\ IF err.isZod
               THEN /\ c.resp.status = 400
                    /\ c.resp.body = ErrorListBody(err.errors)
                    /\ c.pc = "read" => c.readResult = ErrorListBody(err.errors)
               ELSE /\ c.resp.status = 500
                    /\ c.resp.body = ErrorBody("Unknown error")
                    /\ \E m \in (j + 1)..Len(c.trace) :
                        c.trace[m].ev = "console.error" /\ c.trace[m].val = e.val
                    /\ c.pc = "read" => c.readResult = ErrorBody("Unknown error")

EndsInSlash(path) == path # <<>> /\ path[Len(path)] = "/"

\* C11: two paths that do not end in "/" and have the same final segment
\* resolve to the same procedure name, that segment, and to the same route:
\* the leading segments have no effect on dispatch.
C11_LeadingSegmentsIgnored ==
    \A r \in Reqs : \A p \in Paths :
        LET c == call[r] q == c.req.path IN
        (c.pc # "idle" /\ ~EndsInSlash(p) /\ ~EndsInSlash(q)
         /\ p[Len(p)] = q[Len(q)])
            => /\ c.name = ResolveName(p)
               /\ c.name = p[Len(p)]
               /\ c.route = RouteLookup(routes, ResolveName(p))

C11_Witness ==
    \E r \in Reqs :
        /\ call[r].pc = "read"
        /\ call[r].req.path = <<"/", "api", "/", "v1", "/", "status">>
        /\ call[r].name = "status"
        /\ call[r].resp.status = 200

\* the last segment that is not empty, "" when there is none
RECURSIVE LastNonEmpty(_)
LastNonEmpty(segs) ==
    IF segs = <<>> THEN ""
    ELSE IF segs[Len(segs)] # "" THEN segs[Len(segs)]
    ELSE LastNonEmpty(SubSeq(segs, 1, Len(segs) - 1))

\* C12 (as stated): for every path, also one that ends in "/", the name
\* handle dispatches on is the last non-empty segment of the path.
C12_LastNonEmptySegment ==
    \A r \in Reqs :
        call[r].pc # "idle" =>
            call[r].name = LastNonEmpty(split(call[r].req.path))

\* C13: a query call issues exactly one fetch, a GET of <baseUrl>/<name>
\* without a body; a mutation call issues exactly one fetch, a POST of
\* <baseUrl>/<name> whose body is the JSON text of the input (a key holding
\* undefined has no place in JSON text), or of {} when no input is given
C13_OneRequestPerCall ==
    client.pc # "idle" =>
        /\ Len(client.fetches) = 1
        /\ LET f == client.fetches[1] IN
           /\ f.path = client.baseUrl \o <<"/", client.name>>
           /\ client.kind = "query" =>
                /\ f.method = "GET"
                /\ f.body.json = "none"
           /\ client.kind = "mutation" =>
                /\ f.method = "POST"
                /\ f.body.json = "ok"
                /\ f.body.keys = IF client.arg.given
                                 THEN client.arg.keys \ client.arg.undef
                                 ELSE {}

C13_Witness ==
    /\ client.pc = "fetching"
    /\ client.kind = "mutation"
    /\ ~client.arg.given
    /\ client.baseUrl = <<"/", "api">>
    /\ client.fetches = <<FetchCall(<<"/", "api", "/", "createUser">>, "POST",
                                    {"Content-Type"}, JsonObject({}))>>

\* C14: a settled client call has resolved to the parsed JSON body when fetch
\* gave a response with a 2xx status and a JSON body, has rejected with an
\* error carrying the status when fetch gave a response with any other
\* status, and has rejected with the error of fetch when fetch itself failed
C14_ClientOutcome ==
    client.pc \in {"resolved", "rejected"} =>
        LET f == client.fetched
            o == client.outcome
        IN
        /\ f.kind = "rejected" =>
            /\ client.pc = "rejected"
            /\ o.kind = "error"
            /\ o.message = f.message
        /\ (f.kind = "response" /\ f.status \in 200..299 /\ f.body # NotJson) =>
            /\ client.pc = "resolved"
            /\ o.kind = "value"
            /\ o.body = f.body
        /\ (f.kind = "response" /\ f.status \notin 200..299) =>
            /\ client.pc = "rejected"
            /\ o.kind = "HttpError"
            /\ o.status = f.status

C14_Witness ==
    /\ client.pc = "resolved"
    /\ client.fetched.status = 201
    /\ client.outcome.body = DataBody("object")

\* the client call that settled asked a query procedure that has an input
\* schema, with an input that satisfies the schema
SchemaQueryCall ==
    /\ client.pc \in {"resolved", "rejected"}
    /\ client.kind = "query"
    /\ client.name \in DOMAIN Procedures
    /\ Procedures[client.name]._type = "query"
    /\ Procedures[client.name].input.present
    /\ client.arg.given
    /\ safeParse(Procedures[client.name].input,
                 client.arg.keys \ client.arg.undef).success

\* C15 (as stated): end to end, a query call with an input that satisfies the
\* schema of a query procedure makes the handler run with that input, and the
\* call resolves to what the handler returned
C15_QueryInputReachesHandler ==
    SchemaQueryCall =>
        LET c == call[1] IN
        /\ \E i \in HandlerCalls(c) :
                c.trace[i].inp = client.arg.keys \ client.arg.undef
        /\ \A i \in 1..Len(c.trace) :
                (c.trace[i].ev = "return" /\ c.trace[i].who = 0
                 /\ Serializable(c.trace[i].val))
                    => /\ client.pc = "resolved"
                       /\ client.outcome.body = DataBody(c.trace[i].val)

\* a middleware of the call returned a Response or threw
MwStopped(c) ==
    \E i \in 1..Len(c.trace) :
        /\ c.trace[i].who # 0
        /\ \/ c.trace[i].ev = "return" /\ c.trace[i].res # NoResp
           \/ c.trace[i].ev = "throw"

\* the body of the request, if it is read, parses
BodyParses(c) == c.req.method = "POST" => c.req.body.json = "ok"

\* the input handed to the schema, if there is one, has every required key
InputValidates(c) ==
    \A i \in 1..Len(c.trace) :
        c.trace[i].ev = "safeParse" => c.route.input.required \subseteq c.trace[i].inp

\* C16: a handle call invokes a handler at most once, and only the handler
\* registered under the resolved name; once it has finished, the handler was
\* invoked exactly once when the name is registered, the body parsed, the
\* input validated and no middleware returned a Response or threw, and not at
\* all otherwise.
C16_HandlerAtMostOnce ==
    \A r \in Reqs :
        LET c == call[r] IN
        /\ Cardinality(HandlerCalls(c)) <= 1
        /\ \A i \in HandlerCalls(c) :
                /\ Registered(c.name)
                /\ c.trace[i].fn = routes[c.name].handler
        /\ Finished(c) =>
                Cardinality(HandlerCalls(c)) =
                    IF /\ Registered(c.name) /\ BodyParses(c)
                       /\ InputValidates(c) /\ ~MwStopped(c)
                    THEN 1 ELSE 0

C16_Witness ==
    \E r \in Reqs :
        LET c == call[r] IN
        /\ Finished(c) /\ c.name = "adminOnly"
        /\ Cardinality(HandlerCalls(c)) = 1
        /\ c.resp.status = 200

\* the handler of the call threw a ZodError
HandlerThrewZod(c) ==
    \E i \in 1..Len(c.trace) :
        /\ c.trace[i].ev = "throw" /\ c.trace[i].who = 0
        /\ ErrorOf(c.trace[i].val).isZod

\* the call ended with a 404 or 400 that handle built
BuiltClientError(c) ==
    /\ Finished(c)
    /\ c.resp.kind # "middleware"
    /\ c.resp.status \in {400, 404}

\* C17 (as stated): every 404 and every 400 that handle builds is returned
\* without the handler having been invoked.
C17_ClientErrorsBeforeHandler ==
    \A r \in Reqs : BuiltClientError(call[r]) => HandlerCalls(call[r]) = {}

\* C17 (amended): every 404, and every 400 that handle builds other than the
\* one its catch block builds for a ZodError thrown by the handler, is
\* returned without the handler having been invoked.
C17_InputErrorsBeforeHandler ==
    \A r \in Reqs :
        (BuiltClientError(call[r]) /\ ~HandlerThrewZod(call[r]))
            => HandlerCalls(call[r]) = {}

C17_Witness ==
    \E r \in Reqs :
        LET c == call[r] IN
        /\ BuiltClientError(c) /\ c.resp.status = 400
        /\ Len(c.trace) > 0
        /\ c.trace[Len(c.trace)].ev = "throw"
        /\ c.trace[Len(c.trace)].who = 2
        /\ HandlerCalls(c) = {}

\* C18 (as stated): the first failing stage decides the response: a POST with
\* an unparsable body to a name that is not registered ends with the 404
\* response, and a request whose input fails the schema ends with the 400
\* validation response without any middleware having been invoked.
C18_FirstFailingStageDecides ==
    \A r \in Reqs :
        LET c == call[r] IN
        Finished(c) =>
            /\ (~Registered(c.name) /\ c.req.method = "POST" /\ c.req.body = BadJson)
                    => c.resp = notFoundResponse
            /\ (Registered(c.name) /\ BodyParses(c) /\ ~InputValidates(c))
                    => /\ c.resp.status = 400
                       /\ c.resp.body.tag = "errors"
                       /\ \A i \in 1..Len(c.trace) : c.trace[i].who = 0

\* middleware k invoked its continuation before position j of the trace
InvokedNext(c, k, j) ==
    \E i \in 1..(j - 1) : c.trace[i].ev = "next" /\ c.trace[i].who = k

\* C19: when a middleware has invoked its continuation and then returns a
\* Response, the call ends with that Response, and nothing is invoked
\* afterwards: no later middleware and no handler.
C19_ResponseWinsOverAdvance ==
    \A r \in Reqs : \A j \in 1..Len(call[r].trace) :
        LET c == call[r] e == c.trace[j] IN
        (e.ev = "return" /\ e.who # 0 /\ e.res # NoResp /\ InvokedNext(c, e.who, j))
            => /\ Finished(c)
               /\ c.resp = e.res
               /\ \A q \in 1..Len(c.trace) :
                    c.trace[q].ev = "call" => (q < j /\ c.trace[q].who \in 1..e.who)

C19_Witness ==
    \E r \in Reqs :
        LET c == call[r] IN
        /\ c.pc = "done" /\ c.name = "adminOnly"
        /\ Len(c.trace) = 3
        /\ c.trace[2].ev = "next" /\ c.trace[2].who = 1
        /\ c.trace[3].ev = "return" /\ c.trace[3].who = 1
        /\ c.resp.status = 401

\* C20 (as stated): when middleware i returns no Response without having
\* invoked its continuation, no later middleware is invoked, the handler is
\* invoked next with the context object that was current when middleware i
\* was called, and when the handler returns, the call ends with status 200.
C20_FallThroughCompletes200 ==
    \A r \in Reqs : \A j \in 1..Len(call[r].trace) :
        LET c == call[r] e == c.trace[j] IN
        (e.ev = "return" /\ e.who # 0 /\ e.res = NoResp /\ ~InvokedNext(c, e.who, j))
            => /\ \A q \in (j + 1)..Len(c.trace) : c.trace[q].who = 0
               /\ Len(c.trace) > j =>
                    /\ c.trace[j + 1].ev = "call"
                    /\ c.trace[j + 1].ctx = c.trace[CallOf(c, e.who)].ctx
               /\ (\E q \in (j + 1)..Len(c.trace) :
                        c.trace[q].ev = "return" /\ c.trace[q].who = 0)
                    => /\ Finished(c)
                       /\ c.resp.status = 200

\* what holds of C20 whatever the handler returns: the handler is invoked
\* next, with the context object middleware i was called with, and nothing
\* is logged before it
C20_FallThroughReachesHandler ==
    \A r \in Reqs : \A j \in 1..Len(call[r].trace) :
        LET c == call[r] e == c.trace[j] IN
        (e.ev = "return" /\ e.who # 0 /\ e.res = NoResp /\ ~InvokedNext(c, e.who, j))
            => /\ \A q \in (j + 1)..Len(c.trace) : c.trace[q].who = 0
               /\ c.pc = "handler" \/ Len(c.trace) > j
               /\ Len(c.trace) > j =>
                    /\ c.trace[j + 1].ev = "call"
                    /\ c.trace[j + 1].ctx = c.trace[CallOf(c, e.who)].ctx

\* the context object the last continuation call before position q passed
\* on, or the copy of the base context when there was none
LastPassed(c, q) ==
    LET nexts == {i \in 1..(q - 1) : c.trace[i].ev = "next"}
    IN  IF nexts = {} THEN 1
        ELSE c.trace[CHOOSE i \in nexts : \A m \in nexts : m <= i].ctx

\* C21 (as stated): a continuation invoked after its middleware has returned
\* has no effect: every middleware and the handler is invoked with the
\* context object that the last continuation call made by a running
\* middleware passed on, and a middleware is found to have advanced when it
\* returns (nextCalled is read as true) only if it invoked its own
\* continuation.
C21_LateNextHasNoEffect ==
    \A r \in Reqs :
        LET c == call[r] IN
        /\ \A q \in 1..Len(c.trace) :
                c.trace[q].ev = "call" => c.trace[q].ctx = LastPassed(c, q)
        /\ \A j \in 1..Len(c.trace) :
                (c.trace[j].ev = "return" /\ c.trace[j].who # 0 /\ c.trace[j].adv)
                    => InvokedNext(c, c.trace[j].who, j)

\* C22 (as stated): with handle calls interleaved, each request gets the
\* response it gets when it runs alone: a request without a body to a
\* procedure whose schema requires a key ends with the 400 validation
\* response and its handler is not invoked, whatever the other calls do.
C22_ResponseAsIfAlone ==
    \A r \in Reqs :
        LET c == call[r] IN
        (Finished(c) /\ c.req.method # "POST" /\ Registered(c.name)
         /\ c.route.input.required # {})
            => /\ c.resp.status = 400
               /\ c.resp.body.tag = "errors"
               /\ HandlerCalls(c) = {}

\* C23 (as stated): for a request that is not a POST, to a procedure without
\* an input schema, the input the handler is invoked with is an empty
\* object, whatever earlier requests were served and whatever their handlers
\* did with their input.
C23_DefaultInputIsEmpty ==
    \A r \in Reqs : \A i \in HandlerCalls(call[r]) :
        LET c == call[r] IN
        (c.req.method # "POST" /\ ~c.route.input.present)
            => c.trace[i].inp = {}

\* a handler or middleware of the call threw an error that is not a ZodError
ThrewPlainError(c) ==
    \E i \in 1..Len(c.trace) :
        /\ c.trace[i].ev = "throw"
        /\ ~ErrorOf(c.trace[i].val).isZod

\* C24 (as stated): two requests whose handler or middleware threw an error
\* that is not a ZodError, whatever the two errors are, get the same
\* response: status 500, and the body each caller reads is
\* { error: "Unknown error" }, with nothing of the thrown error in it.
C24_ErrorsIndistinguishable ==
    \A r1 \in Reqs : \A r2 \in Reqs :
        LET c1 == call[r1] c2 == call[r2] IN
        (c1.pc = "read" /\ c2.pc = "read"
         /\ ThrewPlainError(c1) /\ ThrewPlainError(c2))
            => /\ c1.resp.status = 500 /\ c2.resp.status = 500
               /\ c1.readResult = ErrorBody("Unknown error")
               /\ c2.readResult = c1.readResult

\* C25 (as stated): a handle call whose body parse, middleware invocations
\* and handler invocation all complete eventually resolves with a response;
\* its promise never rejects.
C25_EventuallyResponds ==
    \A r \in Reqs :
        InFlight(call[r]) ~> (Finished(call[r]) /\ call[r].resp # NoResp)

\* C26 (as stated): after construction the route table never changes,
\* whatever requests are handled and whatever public operations of the
\* router are called: the registered names and the handler, schema and
\* middleware list of each entry are those of construction.
C26_RouteTableFixed == routes = router(Procedures)

\* the array an object holds is the list of functions handed to use on the
\* way to it, in call order, and its schema is the one it was created with
Intact(o, ref) == lib.arrays[ref] = o.chain /\ o.input = o.given

\* C27: use and input return a new builder and leave the receiver as it
\* was: whatever builders and procedures are derived afterwards, every
\* builder, every produced procedure and every registered entry keeps the
\* schema it was created with, and its middleware list is exactly the
\* functions handed to use along its own chain, in call order.
C27_BuildersImmutable ==
    /\ \A b \in 1..Len(lib.builders) : Intact(lib.builders[b], lib.builders[b].mw)
    /\ \A p \in 1..Len(lib.procs) : Intact(lib.procs[p], lib.procs[p]._middleware)
    /\ \A e \in 1..Len(lib.entries) :
            Intact(lib.entries[e], lib.entries[e].middleware)

\* C27, the step: each use and each input adds one builder object and
\* changes no builder, procedure or entry that exists, nor the array any of
\* them holds.
C27_ReceiverUnchanged ==
    [][(lib'.builders # lib.builders) =>
            /\ Len(lib'.builders) = Len(lib.builders) + 1
            /\ SubSeq(lib'.builders, 1, Len(lib.builders)) = lib.builders
            /\ lib'.procs = lib.procs /\ lib'.entries = lib.entries
            /\ SubSeq(lib'.arrays, 1, Len(lib.arrays)) = lib.arrays]_vars

C27_Witness ==
    /\ Len(lib.entries) = 1
    /\ lib.arrays[lib.entries[1].middleware] = <<"addTimestamp">>
    /\ lib.entries[1].input = ObjectSchema({"name"})
    /\ \E b \in 1..Len(lib.builders) :
            /\ lib.builders[b].mw = lib.entries[1].middleware
            /\ lib.builders[b].input = NoSchema

====
